---- MODULE Spec2Model ----
(***************************************************************************)
(* Text-to-speech converter (patterson-s/text_to_speech).                  *)
(*                                                                         *)
(* Two programs share the core: app.py (Streamlit, one upload) and         *)
(* backend_batch_01.py (Tk, batch of files).  Both split the text with     *)
(* chunk_text and stream one synthesis request per chunk into one file.    *)
(*                                                                         *)
(* Strings are sequences of one-character strings, indexed from 1 here     *)
(* and from 0 in Python; every operator that takes a Python index says so. *)
(* Lengths are scaled down: MAX_CHARS is 4000 in the source.               *)
(***************************************************************************)
EXTENDS Integers, Sequences, FiniteSets, TLC

\* ------------------------------------------------------------------ bounds
MaxLen == 5          \* longest document text explored
MaxSize == 3         \* largest explicit size argument of chunk_text explored
MaxYield == 6        \* cap on the segments one generator may yield
FragLen == 2         \* bytes in the audio fragment of one request
MaxFiles == 2        \* longest selection list explored
MaxEdits == 2        \* list edits explored after Convert was pressed

\* ------------------------------------------------------- program constants
MAX_CHARS == 3       \* default size of chunk_text (4_000 in the source)

SP == " "
NL == "\n"
Alphabet == {"a", SP, NL}
Whitespace == {SP, NL}

Texts == UNION {[1..k -> Alphabet] : k \in 0..MaxLen}

\* File contents are sequences of bytes <<request index, byte number>>.
NoFile == <<<<-1, 0>>>>            \* marker: the output path does not exist
OldAudio == <<<<-1, 1>>>>          \* the audio left by an earlier conversion

\* ------------------------------------------------------- Python primitives
Min2(a, b) == IF a < b THEN a ELSE b

SetMax(S) == CHOOSE x \in S : \A y \in S : y <= x

SetMin(S) == CHOOSE x \in S : \A y \in S : x <= y

\* slice-index normalisation: negative indices count from the end, then clip
Norm(k, n) == IF k < 0 THEN (IF k + n < 0 THEN 0 ELSE k + n)
                       ELSE (IF k > n THEN n ELSE k)

\* t[a:b] with Python (0-based, half-open, possibly negative) indices
Slice(t, a, b) ==
  LET lo == Norm(a, Len(t))
      hi == Norm(b, Len(t))
  IN IF lo >= hi THEN <<>> ELSE SubSeq(t, lo + 1, hi)

\* t[k] with a Python index
At(t, k) == IF k < 0 THEN t[k + Len(t) + 1] ELSE t[k + 1]

\* t.rfind(" ", a, b): highest index in t[a:b] holding a space, -1 if none
RFindSpace(t, a, b) ==
  LET lo == Norm(a, Len(t))
      hi == Norm(b, Len(t))
      hits == {k \in lo..(hi - 1) : t[k + 1] = SP}
  IN IF hits = {} THEN -1 ELSE SetMax(hits)

\* fault injected into Strip: the slice is yielded untrimmed
StripNone(t) == t

\* t.strip()
Strip(t) ==
  LET keep == {k \in 1..Len(t) : t[k] \notin Whitespace}
  IN IF keep = {} THEN <<>> ELSE SubSeq(t, SetMin(keep), SetMax(keep))

\* `x or y` on integers: x when x is truthy (non-zero), else y
PyOr(x, y) == IF x # 0 THEN x ELSE y

\* ------------------------------------------------------------- chunk_text
\* the value of `end` at the yield of one loop iteration
ChunkEnd(t, sz, st) ==
  LET n == Len(t)
      end0 == Min2(st + sz, n)
  IN IF end0 < n /\ At(t, end0) \notin {SP, NL}
     THEN PyOr(RFindSpace(t, st, end0), end0)
     ELSE end0

\* the segment yielded by that iteration
ChunkSeg(t, sz, st) == Strip(Slice(t, st, ChunkEnd(t, sz, st)))

\* ------------------------------------------------------------- synthesize
\* language_hints[language]; one symbol stands for the bracketed tag
LanguageHint(lang) == IF lang = "fr" THEN <<"[French text] ">> ELSE <<>>

\* fault injected into HintedBlock: the tag is prepended to every chunk
HintedBlockEveryChunk(lang, k, blk) ==
  IF lang # "en" THEN LanguageHint(lang) \o blk ELSE blk

\* the text submitted for chunk k of app.py's synthesize
HintedBlock(lang, k, blk) ==
  IF lang # "en" /\ k = 0 THEN LanguageHint(lang) \o blk ELSE blk

\* fault injected into FileMode: every chunk is opened for appending
FileModeAppend(k) == "ab"

\* file_mode = "wb" if i == 0 else "ab"
FileMode(k) == IF k = 0 THEN "wb" ELSE "ab"

\* the file content right after open(outfile, mode)
Opened(f, mode) == IF mode = "wb" \/ f = NoFile THEN <<>> ELSE f

\* byte b (1..FragLen) of the audio fragment returned for request k
FragByte(k, b) == <<k, b>>

\* the whole fragment of request k
Fragment(k) == [b \in 1..FragLen |-> FragByte(k, b)]

\* fault injected into Progress: the index is used without the + 1
ProgressOffByOne(k, total) == (k * 100) \div total

\* int(((i + 1) / total_chunks) * 100)
Progress(k, total) == ((k + 1) * 100) \div total

\* ------------------------------------------------------- batch converter
Workers == {1, 2}                  \* conversion threads, one per Convert press

\* the files the user can pick in the dialog
Paths == {"d1/a.txt", "d2/a.md", "d1/b.txt"}

\* Path(file_path).stem
Stem(p) == IF p = "d1/b.txt" THEN "b" ELSE "a"

\* Path(output_dir) / f"{input_file.stem}.mp3", within one output directory
OutputFile(p) == IF Stem(p) = "a" THEN "a.mp3" ELSE "b.mp3"

OutNames == {OutputFile(p) : p \in Paths}

\* read_file(input_file): a full chunk and a short word; a one-word markdown
\* paragraph, whose tags strip_markdown turns into spaces; one word that is
\* longer than a chunk
DocText(p) ==
  IF p = "d1/a.txt" THEN [k \in 1..MAX_CHARS |-> "a"] \o <<SP, "a">>
  ELSE IF p = "d2/a.md" THEN <<SP, "a", SP>>
  ELSE [k \in 1..(MAX_CHARS + 1) |-> "a"]

\* list(chunk_text(text)) from offset st on: the chunks, and whether the
\* generator was exhausted before the list outgrew memory
RECURSIVE ChunksFrom(_, _, _)
ChunksFrom(t, st, acc) ==
  IF ~(st < Len(t)) THEN [list |-> acc, exhausted |-> TRUE]
  ELSE IF Len(acc) = MaxYield THEN [list |-> acc, exhausted |-> FALSE]
  ELSE ChunksFrom(t, ChunkEnd(t, MAX_CHARS, st),
                  Append(acc, ChunkSeg(t, MAX_CHARS, st)))

ChunkList(t) == ChunksFrom(t, 0, <<>>)

\* Output contents are sequences of bytes <<worker, input path, chunk, byte>>.
Absent == <<<<0, "", 0, 0>>>>      \* marker: the output file does not exist

\* the fragment worker w receives for chunk k of the document at path p
DocFragment(w, p, k) == [b \in 1..FragLen |-> <<w, p, k, b>>]

\* a conversion thread that has not been started
IdleWorker ==
  [pc |-> "unstarted", total_files |-> 0, successful |-> 0, failed |-> 0,
   idx |-> 0, file_path |-> "", chunks |-> <<>>, k |-> 0, sent |-> 0,
   attempted |-> <<>>, converted |-> <<>>, pressed |-> <<>>,
   error |-> "none"]

\* the except clause of conversion_thread for exception e, then the next
\* loop iteration
AfterFailure(wr, e) ==
  [wr EXCEPT !.failed = @ + 1, !.error = e, !.pc = "loop"]

\* successful_conversions += 1, then the next loop iteration
AfterSuccess(wr) ==
  [wr EXCEPT !.successful = @ + 1, !.pc = "loop",
             !.converted = Append(@, wr.file_path)]

VARIABLES
  text,        \* the document text handed to chunk_text
  size,        \* the size argument of chunk_text
  start,       \* chunk_text's local `start`
  segs,        \* the segments yielded so far, in order
  spans,       \* <<start, end>> of each yielded segment, Python indices
  pc,          \* control position
  variant,     \* "app" (app.py) or "backend" (backend_batch_01.py)
  language,    \* app.py's language code
  i,           \* synthesize's loop index
  block,       \* the text of the current request
  sent,        \* bytes of the current fragment written so far
  reqs,        \* the requests issued so far: [index, input]
  inflight,    \* indices of the requests whose response is still open
  handle,      \* TRUE while the output file is open
  file,        \* content of the output path, or NoFile
  oldFile,     \* content of the output path before the conversion
  progress,    \* values passed to progress_callback, in order
  status,      \* what the caller reported: "idle", "ok", "error", "crash"
  delivered,   \* the bytes app.py handed to the audio player, or NoFile
  cancelRequested,  \* the user asked to abort at a segment boundary
  exc,         \* the exception synthesize raised, or "none"
  selected_files,  \* TTSConverterApp.selected_files, the shared selection list
  worker,      \* the locals of each conversion_thread
  fs,          \* the output directory: output file name -> content
  edits        \* list-editing handlers run since Convert was pressed

chunkVars == <<text, size, start, segs, spans>>

synthVars == <<variant, language, i, block, sent, reqs, inflight, handle, file,
               oldFile, progress, status, delivered, cancelRequested, exc>>

batchVars == <<selected_files, worker, fs, edits>>

vars == <<text, size, start, segs, spans, pc, variant, language, i, block, sent,
          reqs, inflight, handle, file, oldFile, progress, status, delivered,
          cancelRequested, exc, selected_files, worker, fs, edits>>

\* the state of a pipeline that has not run
SynthIdle ==
  /\ i = 0
  /\ block = <<>>
  /\ sent = 0
  /\ reqs = <<>>
  /\ inflight = {}
  /\ handle = FALSE
  /\ progress = <<>>
  /\ status = "idle"
  /\ delivered = NoFile
  /\ cancelRequested = FALSE
  /\ exc = "none"

\* the batch converter right after TTSConverterApp.__init__
BatchIdle ==
  /\ selected_files = <<>>
  /\ worker = [w \in Workers |-> IdleWorker]
  /\ fs = [o \in OutNames |-> Absent]
  /\ edits = <<>>

\* ------------------------------------------ chunk_text iterated on its own
InitChunk ==
  /\ text \in Texts
  /\ size \in 1..MaxSize
  /\ start = 0
  /\ segs = <<>>
  /\ spans = <<>>
  /\ pc = "gen"
  /\ variant = "none"
  /\ language = "en"
  /\ file = NoFile
  /\ oldFile = NoFile
  /\ SynthIdle
  /\ BatchIdle

\* one iteration of `while start < n`
ChunkStep ==
  /\ pc = "gen"
  /\ start < Len(text)
  /\ Len(segs) < MaxYield
  /\ segs' = Append(segs, ChunkSeg(text, size, start))
  /\ spans' = Append(spans, <<start, ChunkEnd(text, size, start)>>)
  /\ start' = ChunkEnd(text, size, start)
  /\ UNCHANGED <<text, size, pc>>
  /\ UNCHANGED synthVars
  /\ UNCHANGED batchVars

\* the loop condition fails: the generator is exhausted
ChunkStop ==
  /\ pc = "gen"
  /\ ~(start < Len(text))
  /\ pc' = "done"
  /\ UNCHANGED chunkVars
  /\ UNCHANGED synthVars
  /\ UNCHANGED batchVars

NextChunk == ChunkStep \/ ChunkStop

SpecChunk == InitChunk /\ [][NextChunk]_vars

\* -------------------------------------- one conversion: caller + synthesize
\* app.py writes into a fresh temporary directory; the batch converter writes
\* into the chosen output directory, where an earlier <stem>.mp3 may exist
InitSynth ==
  /\ text \in Texts
  /\ size = MAX_CHARS
  /\ start = 0
  /\ segs = <<>>
  /\ spans = <<>>
  /\ \/ /\ variant = "app"
        /\ language \in {"en", "fr"}
        /\ oldFile = NoFile
        /\ pc = "iter"
     \/ /\ variant = "backend"
        /\ language = "en"
        /\ oldFile \in {NoFile, OldAudio}
        /\ pc = "list"
  /\ file = oldFile
  /\ SynthIdle
  /\ BatchIdle

\* the generator body run once, for whoever consumes it
GenStep ==
  /\ start < Len(text)
  /\ Len(segs) < MaxYield
  /\ segs' = Append(segs, ChunkSeg(text, size, start))
  /\ spans' = Append(spans, <<start, ChunkEnd(text, size, start)>>)
  /\ start' = ChunkEnd(text, size, start)
  /\ UNCHANGED <<text, size>>

\* backend: chunks = list(chunk_text(text)), one generator step
ListChunk ==
  /\ variant = "backend"
  /\ pc = "list"
  /\ GenStep
  /\ UNCHANGED pc
  /\ UNCHANGED synthVars
  /\ UNCHANGED batchVars

\* backend: the generator is exhausted, total_chunks = len(chunks)
ListDone ==
  /\ variant = "backend"
  /\ pc = "list"
  /\ ~(start < Len(text))
  /\ pc' = "iter"
  /\ UNCHANGED chunkVars
  /\ UNCHANGED synthVars
  /\ UNCHANGED batchVars

\* app: enumerate(chunk_text(text)) pulls the next chunk, then the hint
NextBlockLazy ==
  /\ variant = "app"
  /\ pc = "iter"
  /\ GenStep
  /\ block' = HintedBlock(language, i, ChunkSeg(text, size, start))
  /\ pc' = "create"
  /\ UNCHANGED <<variant, language, i, sent, reqs, inflight, handle, file,
                 oldFile, progress, status, delivered, cancelRequested, exc>>
  /\ UNCHANGED batchVars

\* backend: enumerate(chunks) gives the next chunk of the list
NextBlockList ==
  /\ variant = "backend"
  /\ pc = "iter"
  /\ i < Len(segs)
  /\ block' = segs[i + 1]
  /\ pc' = "create"
  /\ UNCHANGED chunkVars
  /\ UNCHANGED <<variant, language, i, sent, reqs, inflight, handle, file,
                 oldFile, progress, status, delivered, cancelRequested, exc>>
  /\ UNCHANGED batchVars

\* the for loop ends: synthesize returns
LoopEnd ==
  /\ pc = "iter"
  /\ \/ variant = "app" /\ ~(start < Len(text))
     \/ variant = "backend" /\ ~(i < Len(segs))
  /\ pc' = "returned"
  /\ UNCHANGED chunkVars
  /\ UNCHANGED synthVars
  /\ UNCHANGED batchVars

\* with_streaming_response.create(...) is entered: the request is accepted
CreateOk ==
  /\ pc = "create"
  /\ reqs' = Append(reqs, [index |-> i, input |-> block])
  /\ inflight' = inflight \cup {i}
  /\ pc' = "open"
  /\ UNCHANGED chunkVars
  /\ UNCHANGED <<variant, language, i, block, sent, handle, file, oldFile,
                 progress, status, delivered, cancelRequested, exc>>
  /\ UNCHANGED batchVars

\* the request is rejected or the transport fails: the call raises
CreateFail ==
  /\ pc = "create"
  /\ reqs' = Append(reqs, [index |-> i, input |-> block])
  /\ exc' = "APIError"
  /\ pc' = "raised"
  /\ UNCHANGED chunkVars
  /\ UNCHANGED <<variant, language, i, block, sent, inflight, handle, file,
                 oldFile, progress, status, delivered, cancelRequested>>
  /\ UNCHANGED batchVars

\* open(outfile, file_mode) succeeds
OpenOk ==
  /\ pc = "open"
  /\ file' = Opened(file, FileMode(i))
  /\ handle' = TRUE
  /\ sent' = 0
  /\ pc' = "stream"
  /\ UNCHANGED chunkVars
  /\ UNCHANGED <<variant, language, i, block, reqs, inflight, oldFile,
                 progress, status, delivered, cancelRequested, exc>>
  /\ UNCHANGED batchVars

\* open raises OSError; the with statement closes the response
OpenFail ==
  /\ pc = "open"
  /\ inflight' = inflight \ {i}
  /\ exc' = "OSError"
  /\ pc' = "raised"
  /\ UNCHANGED chunkVars
  /\ UNCHANGED <<variant, language, i, block, sent, reqs, handle, file,
                 oldFile, progress, status, delivered, cancelRequested>>
  /\ UNCHANGED batchVars

\* for chunk in resp.iter_bytes(): f.write(chunk)
WriteChunk ==
  /\ pc = "stream"
  /\ sent < FragLen
  /\ file' = Append(file, FragByte(i, sent + 1))
  /\ sent' = sent + 1
  /\ UNCHANGED chunkVars
  /\ UNCHANGED <<pc, variant, language, i, block, reqs, inflight, handle,
                 oldFile, progress, status, delivered, cancelRequested, exc>>
  /\ UNCHANGED batchVars

\* iter_bytes or write raises mid-stream; the with statement closes both
StreamFail ==
  /\ pc = "stream"
  /\ sent < FragLen
  /\ handle' = FALSE
  /\ inflight' = inflight \ {i}
  /\ exc' = "StreamError"
  /\ pc' = "raised"
  /\ UNCHANGED chunkVars
  /\ UNCHANGED <<variant, language, i, block, sent, reqs, file, oldFile,
                 progress, status, delivered, cancelRequested>>
  /\ UNCHANGED batchVars

\* fault injected into CloseBlock: the response is left open when the block ends
CloseBlockLeak ==
  /\ pc = "stream"
  /\ sent = FragLen
  /\ handle' = FALSE
  /\ inflight' = inflight
  /\ progress' = IF variant = "backend"
                 THEN Append(progress, Progress(i, Len(segs)))
                 ELSE progress
  /\ i' = i + 1
  /\ pc' = "iter"
  /\ UNCHANGED chunkVars
  /\ UNCHANGED <<variant, language, block, sent, reqs, file, oldFile, status,
                 delivered, cancelRequested, exc>>
  /\ UNCHANGED batchVars

\* the stream is exhausted: the with statement closes the file and the
\* response; backend then calls progress_callback
CloseBlock ==
  /\ pc = "stream"
  /\ sent = FragLen
  /\ handle' = FALSE
  /\ inflight' = inflight \ {i}
  /\ progress' = IF variant = "backend"
                 THEN Append(progress, Progress(i, Len(segs)))
                 ELSE progress
  /\ i' = i + 1
  /\ pc' = "iter"
  /\ UNCHANGED chunkVars
  /\ UNCHANGED <<variant, language, block, sent, reqs, file, oldFile, status,
                 delivered, cancelRequested, exc>>
  /\ UNCHANGED batchVars

\* fault injected into HandleError: the failed chunk is skipped and the loop goes on
HandleErrorResume ==
  /\ pc = "raised"
  /\ i' = i + 1
  /\ pc' = "iter"
  /\ UNCHANGED chunkVars
  /\ UNCHANGED <<variant, language, block, sent, reqs, inflight, handle, file,
                 oldFile, progress, status, delivered, cancelRequested, exc>>
  /\ UNCHANGED batchVars

\* the caller's except clause; app.py then removes its temporary directory
HandleError ==
  /\ pc = "raised"
  /\ status' = "error"
  /\ file' = IF variant = "app" THEN NoFile ELSE file
  /\ pc' = "handled"
  /\ UNCHANGED chunkVars
  /\ UNCHANGED <<variant, language, i, block, sent, reqs, inflight, handle,
                 oldFile, progress, delivered, cancelRequested, exc>>
  /\ UNCHANGED batchVars

\* the caller after a normal return: app.py reads the file, plays it and
\* removes its temporary directory; backend counts a success
HandleReturn ==
  /\ pc = "returned"
  /\ \/ /\ variant = "app"
        /\ file # NoFile
        /\ delivered' = file
        /\ file' = NoFile
        /\ status' = "ok"
        /\ pc' = "handled"
     \/ /\ variant = "app"
        /\ file = NoFile
        /\ status' = "crash"
        /\ pc' = "handled"
        /\ UNCHANGED <<delivered, file>>
     \/ /\ variant = "backend"
        /\ status' = "ok"
        /\ pc' = "handled"
        /\ UNCHANGED <<delivered, file>>
  /\ UNCHANGED chunkVars
  /\ UNCHANGED <<variant, language, i, block, sent, reqs, inflight, handle,
                 oldFile, progress, cancelRequested, exc>>
  /\ UNCHANGED batchVars

\* the user asks to abort after segment i-1 was appended and before segment i
\* is requested; synthesize has no parameter or shared flag through which it
\* could see the request
RequestCancel ==
  /\ pc = "iter"
  /\ i >= 1
  /\ \/ variant = "app" /\ start < Len(text)
     \/ variant = "backend" /\ i < Len(segs)
  /\ ~cancelRequested
  /\ cancelRequested' = TRUE
  /\ UNCHANGED chunkVars
  /\ UNCHANGED <<pc, variant, language, i, block, sent, reqs, inflight, handle,
                 file, oldFile, progress, status, delivered, exc>>
  /\ UNCHANGED batchVars

NextSynth ==
  \/ ListChunk
  \/ ListDone
  \/ NextBlockLazy
  \/ NextBlockList
  \/ LoopEnd
  \/ CreateOk
  \/ CreateFail
  \/ OpenOk
  \/ OpenFail
  \/ WriteChunk
  \/ StreamFail
  \/ CloseBlock
  \/ HandleError
  \/ HandleReturn
  \/ RequestCancel

SpecSynth == InitSynth /\ [][NextSynth]_vars

\* ------------------------------------------- batch converter: UI + threads
soloVars == <<text, size, start, segs, spans, pc, variant, language, i, block,
              sent, reqs, inflight, handle, file, oldFile, progress, status,
              delivered, cancelRequested, exc>>

InitBatch ==
  /\ text = <<>>
  /\ size = MAX_CHARS
  /\ start = 0
  /\ segs = <<>>
  /\ spans = <<>>
  /\ pc = "batch"
  /\ variant = "backend"
  /\ language = "en"
  /\ file = NoFile
  /\ oldFile = NoFile
  /\ SynthIdle
  /\ BatchIdle

\* no conversion thread has been started yet
Quiet == \A w \in Workers : worker[w].pc = "unstarted"

InList(p) == \E n \in 1..Len(selected_files) : selected_files[n] = p

\* the process has not been killed
Alive == \A w \in Workers : worker[w].pc # "killed"

\* the handlers that edited the list since a conversion thread exists
Edited(handler) == IF Quiet THEN edits ELSE Append(edits, handler)

\* browse_files: the dialog returns one path, appended unless already listed
AddFiles ==
  /\ Alive
  /\ Len(selected_files) < MaxFiles
  /\ Len(edits) < MaxEdits
  /\ \E p \in Paths :
       selected_files' = IF InList(p) THEN selected_files
                         ELSE Append(selected_files, p)
  /\ edits' = Edited("browse_files")
  /\ UNCHANGED <<worker, fs>>
  /\ UNCHANGED soloVars

\* the list without the entries at the positions in S
Without(list, S) ==
  LET keep == {n \in 1..Len(list) : n \notin S}
      nth(m) == CHOOSE n \in keep : Cardinality({x \in keep : x < n}) = m - 1
  IN [m \in 1..Cardinality(keep) |-> list[nth(m)]]

\* remove_selected_files: the entries highlighted in the listbox are deleted
RemoveSelected ==
  /\ Alive
  /\ Len(edits) < MaxEdits
  /\ \E S \in SUBSET (1..Len(selected_files)) :
       /\ S # {}
       /\ selected_files' = Without(selected_files, S)
  /\ edits' = Edited("remove_selected_files")
  /\ UNCHANGED <<worker, fs>>
  /\ UNCHANGED soloVars

\* clear_files
ClearFiles ==
  /\ Alive
  /\ Len(edits) < MaxEdits
  /\ selected_files # <<>>
  /\ selected_files' = <<>>
  /\ edits' = Edited("clear_files")
  /\ UNCHANGED <<worker, fs>>
  /\ UNCHANGED soloVars

\* convert_to_speech with files selected and an API key: a thread is started
Convert ==
  /\ Alive
  /\ selected_files # <<>>
  /\ \E w \in Workers :
       /\ worker[w].pc = "unstarted"
       /\ \A v \in Workers : v < w => worker[v].pc # "unstarted"
       /\ worker' = [worker EXCEPT ![w].pc = "started",
                                   ![w].pressed = selected_files]
  /\ UNCHANGED <<selected_files, fs, edits>>
  /\ UNCHANGED soloVars

\* conversion_thread starts running: total_files = len(self.selected_files)
WorkerBegin(w) ==
  /\ worker[w].pc = "started"
  /\ worker' = [worker EXCEPT ![w].pc = "loop",
                              ![w].total_files = Len(selected_files)]
  /\ UNCHANGED <<selected_files, fs, edits>>
  /\ UNCHANGED soloVars

\* the locals of worker w once the list iterator has handed out its next item
Taken(w) ==
  [worker[w] EXCEPT !.idx = @ + 1,
                    !.file_path = selected_files[worker[w].idx + 1],
                    !.attempted = Append(@, selected_files[worker[w].idx + 1]),
                    !.chunks = <<>>, !.k = 0, !.sent = 0]

\* the for loop takes the next file; it is read and split into chunks; a
\* document without chunks is converted at once
WorkerStartFile(w) ==
  /\ worker[w].pc = "loop"
  /\ worker[w].idx < Len(selected_files)
  /\ LET cl == ChunkList(DocText(Taken(w).file_path))
     IN /\ cl.exhausted
        /\ worker' = [worker EXCEPT ![w] =
             IF cl.list = <<>> THEN AfterSuccess(Taken(w))
             ELSE [Taken(w) EXCEPT !.chunks = cl.list, !.pc = "create"]]
  /\ UNCHANGED <<selected_files, fs, edits>>
  /\ UNCHANGED soloVars

\* the for loop takes the next file and read_file raises
WorkerReadFail(w) ==
  /\ worker[w].pc = "loop"
  /\ worker[w].idx < Len(selected_files)
  /\ worker' = [worker EXCEPT ![w] = AfterFailure(Taken(w), "OSError")]
  /\ UNCHANGED <<selected_files, fs, edits>>
  /\ UNCHANGED soloVars

\* the for loop takes the next file and list(chunk_text(text)) never
\* exhausts the generator: the list grows until MemoryError is raised
WorkerListOverflow(w) ==
  /\ worker[w].pc = "loop"
  /\ worker[w].idx < Len(selected_files)
  /\ ~ChunkList(DocText(Taken(w).file_path)).exhausted
  /\ worker' = [worker EXCEPT ![w] = AfterFailure(Taken(w), "MemoryError")]
  /\ UNCHANGED <<selected_files, fs, edits>>
  /\ UNCHANGED soloVars

\* the for loop takes the next file and list(chunk_text(text)) never
\* exhausts the generator: the operating system kills the process for its
\* memory use before any MemoryError is raised, and every thread dies with it
WorkerListKilled(w) ==
  /\ worker[w].pc = "loop"
  /\ worker[w].idx < Len(selected_files)
  /\ ~ChunkList(DocText(Taken(w).file_path)).exhausted
  /\ worker' = [v \in Workers |->
       IF v = w THEN [Taken(w) EXCEPT !.pc = "killed"]
       ELSE IF worker[v].pc \in {"unstarted", "finished"} THEN worker[v]
       ELSE [worker[v] EXCEPT !.pc = "killed"]]
  /\ UNCHANGED <<selected_files, fs, edits>>
  /\ UNCHANGED soloVars

\* the request of the current chunk is accepted
WorkerCreateOk(w) ==
  /\ worker[w].pc = "create"
  /\ worker' = [worker EXCEPT ![w].pc = "open"]
  /\ UNCHANGED <<selected_files, fs, edits>>
  /\ UNCHANGED soloVars

\* the request of the current chunk raises
WorkerCreateFail(w) ==
  /\ worker[w].pc = "create"
  /\ worker' = [worker EXCEPT ![w] = AfterFailure(worker[w], "APIError")]
  /\ UNCHANGED <<selected_files, fs, edits>>
  /\ UNCHANGED soloVars

\* open(outfile, file_mode)
WorkerOpen(w) ==
  /\ worker[w].pc = "open"
  /\ LET o == OutputFile(worker[w].file_path)
     IN fs' = [fs EXCEPT ![o] =
                 IF FileMode(worker[w].k) = "wb" \/ fs[o] = Absent
                 THEN <<>> ELSE fs[o]]
  /\ worker' = [worker EXCEPT ![w].pc = "stream", ![w].sent = 0]
  /\ UNCHANGED <<selected_files, edits>>
  /\ UNCHANGED soloVars

\* f.write(chunk) for the next bytes of the response
WorkerWrite(w) ==
  /\ worker[w].pc = "stream"
  /\ worker[w].sent < FragLen
  /\ LET o == OutputFile(worker[w].file_path)
     IN fs' = [fs EXCEPT ![o] =
                 Append(@, <<w, worker[w].file_path, worker[w].k,
                             worker[w].sent + 1>>)]
  /\ worker' = [worker EXCEPT ![w].sent = @ + 1]
  /\ UNCHANGED <<selected_files, edits>>
  /\ UNCHANGED soloVars

\* the response stream or the write raises before the fragment is complete
WorkerStreamFail(w) ==
  /\ worker[w].pc = "stream"
  /\ worker[w].sent < FragLen
  /\ worker' = [worker EXCEPT ![w] = AfterFailure(worker[w], "StreamError")]
  /\ UNCHANGED <<selected_files, fs, edits>>
  /\ UNCHANGED soloVars

\* the with block ends: next chunk, or synthesize returns
WorkerClose(w) ==
  /\ worker[w].pc = "stream"
  /\ worker[w].sent = FragLen
  /\ worker' = [worker EXCEPT ![w] =
       IF worker[w].k + 1 = Len(worker[w].chunks)
       THEN AfterSuccess([worker[w] EXCEPT !.k = @ + 1])
       ELSE [worker[w] EXCEPT !.k = @ + 1, !.pc = "create"]]
  /\ UNCHANGED <<selected_files, fs, edits>>
  /\ UNCHANGED soloVars

\* the list iterator is exhausted: the final status is shown
WorkerFinish(w) ==
  /\ worker[w].pc = "loop"
  /\ ~(worker[w].idx < Len(selected_files))
  /\ worker' = [worker EXCEPT ![w].pc = "finished"]
  /\ UNCHANGED <<selected_files, fs, edits>>
  /\ UNCHANGED soloVars

Begin == \E w \in Workers : WorkerBegin(w)

StartFile == \E w \in Workers : WorkerStartFile(w)

ReadFail == \E w \in Workers : WorkerReadFail(w)

ListOverflow == \E w \in Workers : WorkerListOverflow(w)

ListKilled == \E w \in Workers : WorkerListKilled(w)

RequestOk == \E w \in Workers : WorkerCreateOk(w)

RequestFail == \E w \in Workers : WorkerCreateFail(w)

OpenOutput == \E w \in Workers : WorkerOpen(w)

WriteOutput == \E w \in Workers : WorkerWrite(w)

StreamBreak == \E w \in Workers : WorkerStreamFail(w)

CloseOutput == \E w \in Workers : WorkerClose(w)

Finish == \E w \in Workers : WorkerFinish(w)

\* the user builds the list, presses Convert once and then leaves the
\* window alone
QuietAddFiles == Quiet /\ AddFiles

FirstConvert == Quiet /\ Convert

NextBatchSolo ==
  \/ QuietAddFiles
  \/ FirstConvert
  \/ Begin
  \/ StartFile
  \/ ReadFail
  \/ ListOverflow
  \/ ListKilled
  \/ RequestOk
  \/ RequestFail
  \/ OpenOutput
  \/ WriteOutput
  \/ StreamBreak
  \/ CloseOutput
  \/ Finish

SpecBatchSolo == InitBatch /\ [][NextBatchSolo]_vars

\* the user builds the list and presses Convert, and may press it again
\* while the first thread runs: the button is never disabled
NextBatchPresses ==
  \/ QuietAddFiles
  \/ Convert
  \/ Begin
  \/ StartFile
  \/ ReadFail
  \/ ListOverflow
  \/ ListKilled
  \/ RequestOk
  \/ RequestFail
  \/ OpenOutput
  \/ WriteOutput
  \/ StreamBreak
  \/ CloseOutput
  \/ Finish

SpecBatchPresses == InitBatch /\ [][NextBatchPresses]_vars

\* the user presses Convert once and may edit the list while the thread runs
NextBatchEdits ==
  \/ AddFiles
  \/ RemoveSelected
  \/ ClearFiles
  \/ FirstConvert
  \/ Begin
  \/ StartFile
  \/ ReadFail
  \/ ListOverflow
  \/ ListKilled
  \/ RequestOk
  \/ RequestFail
  \/ OpenOutput
  \/ WriteOutput
  \/ StreamBreak
  \/ CloseOutput
  \/ Finish

SpecBatchEdits == InitBatch /\ [][NextBatchEdits]_vars

\* ------------------------------------------------- claims about chunk_text
RECURSIVE TrimLeft(_)
TrimLeft(t) == IF t # <<>> /\ Head(t) \in Whitespace THEN TrimLeft(Tail(t)) ELSE t

RECURSIVE TrimRight(_)
TrimRight(t) ==
  IF t # <<>> /\ t[Len(t)] \in Whitespace
  THEN TrimRight(SubSeq(t, 1, Len(t) - 1))
  ELSE t

\* trim(T) as the specification means it, independent of Strip
Trim(t) == TrimRight(TrimLeft(t))

\* the words of a text: its maximal runs of non-whitespace characters
WordStarts(t) ==
  {k \in 1..Len(t) : t[k] \notin Whitespace /\ (k = 1 \/ t[k - 1] \in Whitespace)}

WordEnd(t, s) ==
  SetMin({k \in s..Len(t) : k = Len(t) \/ t[k + 1] \in Whitespace})

Words(t) ==
  [m \in 1..Cardinality(WordStarts(t)) |->
     LET s == CHOOSE x \in WordStarts(t) :
                Cardinality({y \in WordStarts(t) : y < x}) = m - 1
     IN SubSeq(t, s, WordEnd(t, s))]

\* segments joined in index order with one space at each former split point
RECURSIVE JoinSpace(_)
JoinSpace(ss) ==
  IF ss = <<>> THEN <<>>
  ELSE IF Len(ss) = 1 THEN ss[1]
  ELSE ss[1] \o <<SP>> \o JoinSpace(Tail(ss))

\* the character indices of T inside the pre-trim span of segment k
SpanIndices(k) == {x \in 0..(Len(text) - 1) : spans[k][1] <= x /\ x < spans[k][2]}

\* C1: every segment yielded by chunk_text(T, M) has length at most M.
C1_SegmentWithinMax == \A k \in 1..Len(segs) : Len(segs[k]) <= size

\* C2: the boundaries strictly increase from one segment to the next, so at
\* most len(T) segments are yielded; the loop ends with the offset at len(T);
\* and then every character index of T lies in exactly one pre-trim span.
C2_BoundariesCoverOnce ==
  /\ \A k \in 1..Len(spans) : spans[k][1] < spans[k][2]
  /\ Len(segs) <= Len(text)
  /\ pc = "done" =>
       /\ start = Len(text)
       /\ \A x \in 0..(Len(text) - 1) :
            Cardinality({k \in 1..Len(spans) : x \in SpanIndices(k)}) = 1

\* C3: once chunk_text(T, M) is exhausted, its segments joined with single
\* spaces have exactly the words of T, in the same order.
C3_WhitespaceEquivalent == pc = "done" => Words(JoinSpace(segs)) = Words(text)

\* C4: for len(T) <= M the exhausted generator has yielded exactly one
\* segment, trim(T); for the empty text it has yielded none.
C4_ShortTextOneSegment ==
  (pc = "done" /\ Len(text) <= size) =>
     segs = IF text = <<>> THEN <<>> ELSE <<Trim(text)>>

\* C4 witness: a short text whose single segment lost whitespace to the trim
C4_Witness ==
  /\ pc = "done"
  /\ Len(text) <= size
  /\ Len(segs) = 1
  /\ segs[1] # text
  /\ segs[1] # <<>>

\* ------------------------------------------------- claims about synthesize
\* fragment(0) ++ ... ++ fragment(k-1)
RECURSIVE ConcatFragments(_)
ConcatFragments(k) ==
  IF k = 0 THEN <<>> ELSE ConcatFragments(k - 1) \o Fragment(k - 1)

\* the requests issued so far are those of segments 0, 1, ... once each
RequestsInOrder == \A k \in 1..Len(reqs) : reqs[k].index = k - 1

\* C5: requests are issued in index order 0, 1, ...; at most one response is
\* open at any time; and whenever a request is issued the output handle is
\* closed, no response is open and the file holds every byte of the
\* fragments of all earlier segments.
C5_StrictlySequential ==
  /\ [](RequestsInOrder /\ Cardinality(inflight) <= 1)
  /\ [][Len(reqs') > Len(reqs) =>
          /\ ~handle
          /\ inflight = {}
          /\ i >= 1 => file = ConcatFragments(i)]_vars

\* C5 witness: the request of segment 1 is open after segment 0 was appended
C5_Witness ==
  /\ Len(reqs) = 2
  /\ inflight = {1}
  /\ ~handle
  /\ file = Fragment(0)

\* C6: when synthesize returns for a document of k >= 1 segments, exactly k
\* requests were made, one per segment in index order, and the output file is
\* fragment(0) ++ ... ++ fragment(k-1), whatever the path held before.
C6_OutputIsConcatenation ==
  (pc = "returned" /\ Len(segs) >= 1) =>
     /\ Len(reqs) = Len(segs)
     /\ RequestsInOrder
     /\ file = ConcatFragments(Len(segs))

\* C6 witness: two segments written over the audio of an earlier conversion
C6_Witness ==
  /\ pc = "returned"
  /\ Len(segs) = 2
  /\ oldFile = OldAudio
  /\ file = Fragment(0) \o Fragment(1)

\* the synthesis call of the current segment failed
SynthesisFailed == exc \in {"APIError", "StreamError"}

\* C7: once the synthesis call of segment i has failed, synthesize has
\* raised, segment i was requested once and is the last request ever made,
\* and the caller reports the error.
C7_FailureEndsConversion ==
  /\ [](SynthesisFailed =>
          /\ pc \in {"raised", "handled"}
          /\ RequestsInOrder
          /\ Len(reqs) = i + 1
          /\ pc = "handled" => status = "error")
  /\ [][SynthesisFailed => reqs' = reqs]_vars

\* C7 witness: segment 1 of 3 failed and the caller has reported it
C7_Witness ==
  /\ exc = "APIError"
  /\ pc = "handled"
  /\ status = "error"
  /\ i = 1
  /\ Len(segs) = 3

\* C8: after a failed conversion has been handled, the output path holds
\* nothing this conversion wrote: it is absent or still as it was before.
C8_NoPartialOutput ==
  (pc = "handled" /\ status = "error") => file \in {NoFile, oldFile}

\* C9: once cancellation is requested at a segment boundary no further
\* request is issued, and the pipeline ends reporting cancellation with the
\* partial output discarded.
C9_CancelStopsPipeline ==
  /\ [][cancelRequested => reqs' = reqs]_vars
  /\ [](cancelRequested /\ pc = "handled" =>
          status = "cancelled" /\ file \in {NoFile, oldFile})

\* C10: the text of every request has at most MAX_CHARS characters.
C10_RequestWithinMax ==
  \A k \in 1..Len(reqs) : Len(reqs[k].input) <= MAX_CHARS

\* C11: no request with empty text is ever sent to the service.
C11_NoEmptyRequest == \A k \in 1..Len(reqs) : reqs[k].input # <<>>

C15_HintOnlyOnSegmentZero ==
  \A k \in 1..Len(reqs) :
     reqs[k].input = IF language # "en" /\ k = 1
                     THEN <<"[French text] ">> \o segs[k]
                     ELSE segs[k]

\* C15 witness: French, segment 0 sent with the tag and segment 1 without it
C15_Witness ==
  /\ language = "fr"
  /\ Len(reqs) = 2
  /\ segs[2] # <<>>
  /\ reqs[1].input = <<"[French text] ">> \o segs[1]
  /\ reqs[2].input = segs[2]

\* C18: when synthesize has returned, the output file exists and every byte
\* in it belongs to a fragment this call received.
C18_ReturnLeavesOwnOutput ==
  pc = "returned" =>
     /\ file # NoFile
     /\ \A b \in 1..Len(file) : file[b][1] \in 0..(Len(reqs) - 1)

\* ------------------------------------- claims about the boundary adjustment
\* the candidate boundary min(offset + maxSize, length) of segment k
Candidate(k) == Min2(spans[k][1] + size, Len(text))

\* segment k was cut where the candidate boundary lies strictly inside the
\* text on a character that is neither a space nor a newline
CutInsideWord(k) ==
  /\ spans[k][1] >= 0
  /\ Candidate(k) < Len(text)
  /\ text[Candidate(k) + 1] \notin Whitespace

\* the indices of the whitespace characters in the span searched for segment k
SpanWhitespace(k) ==
  {x \in spans[k][1]..(Candidate(k) - 1) : text[x + 1] \in Whitespace}

\* those after the first character of the span: a boundary on the first
\* character itself would leave the segment empty
InnerWhitespace(k) == SpanWhitespace(k) \ {spans[k][1]}

\* C16: when the candidate boundary falls inside a word and the span holds a
\* space or newline after its first character, the boundary is the index of
\* the last such character.
C16_BoundaryMovesToWhitespace ==
  \A k \in 1..Len(spans) :
     (CutInsideWord(k) /\ InnerWhitespace(k) # {}) =>
        spans[k][2] = SetMax(InnerWhitespace(k))

\* C17: when the candidate boundary falls inside a word and the span holds no
\* whitespace, the candidate boundary is kept: the segment is the trimmed
\* slice up to it and the next scan starts there.
C17_FallbackKeepsBoundary ==
  \A k \in 1..Len(spans) :
     (CutInsideWord(k) /\ SpanWhitespace(k) = {}) =>
        /\ spans[k][2] = Candidate(k)
        /\ segs[k] = Trim(SubSeq(text, spans[k][1] + 1, Candidate(k)))
        /\ k < Len(spans) => spans[k + 1][1] = Candidate(k)

\* ---------------------------------------------------------------------
\* claims about the batch converter

\* a conversion thread that runs no more: it showed its final status, or
\* died with the process
Stopped(w) == worker[w].pc \in {"finished", "killed"}

\* C12: a failure while converting document j aborts only document j: the
\* documents are attempted once each in list order, and when the thread
\* has stopped every document of the batch was attempted and
\* successful + failed equals the number of documents
C12_FailureAbortsOneDocument ==
  \A w \in Workers :
    LET wr == worker[w]
    IN /\ Len(wr.attempted) <= Len(wr.pressed)
       /\ wr.attempted = SubSeq(wr.pressed, 1, Len(wr.attempted))
       /\ Stopped(w) =>
            /\ wr.attempted = wr.pressed
            /\ wr.successful + wr.failed = Len(wr.pressed)

\* the audio of document p as thread w writes it: the fragments of its
\* chunks in order
RECURSIVE DocAudioUpTo(_, _, _)
DocAudioUpTo(w, p, n) ==
  IF n = 0 THEN <<>>
  ELSE DocAudioUpTo(w, p, n - 1) \o DocFragment(w, p, n - 1)

DocAudio(w, p) == DocAudioUpTo(w, p, Len(ChunkList(DocText(p)).list))

\* C19: at the end of a batch every document counted as successful has an
\* output file of its own holding exactly its fragments
C19_OwnOutputPerDocument ==
  \A w \in Workers :
    worker[w].pc = "finished" =>
      \A n \in 1..Len(worker[w].converted) :
        LET p == worker[w].converted[n]
        IN /\ fs[OutputFile(p)] = DocAudio(w, p)
           /\ \A m \in 1..Len(worker[w].converted) :
                m # n => OutputFile(worker[w].converted[m]) # OutputFile(p)

\* thread w holds its output file open
HoldsOpen(w) == worker[w].pc = "stream"

\* C13: no output file is open in two conversion threads at once, and no
\* output file holds bytes written by two threads
C13_OneWriterPerFile ==
  /\ \A v, w \in Workers :
       (v # w /\ HoldsOpen(v) /\ HoldsOpen(w)) =>
         OutputFile(worker[v].file_path) # OutputFile(worker[w].file_path)
  /\ \A o \in OutNames :
       fs[o] # Absent =>
         \A m, n \in 1..Len(fs[o]) : fs[o][m][1] = fs[o][n][1]

\* C20: a finished batch processed exactly the files that were selected
\* when Convert was pressed, once each and in order, and its counts add up
\* to total_files
C20_ProcessesPressedFiles ==
  \A w \in Workers :
    worker[w].pc = "finished" =>
      /\ worker[w].attempted = worker[w].pressed
      /\ worker[w].successful + worker[w].failed = worker[w].total_files
      /\ worker[w].total_files = Len(worker[w].pressed)

====
